---- MODULE Spec2Model ----
(***************************************************************************)
(* Model of the MNIHL document extraction API (src/main.py).               *)
(*                                                                         *)
(* Text is a sequence of lexemes (one-character strings, plus the atoms    *)
(* "json", "null" and the quoted member names), so that str.strip,         *)
(* str.replace, str.split, re.match, int() and json.loads are computed on  *)
(* the text and not assumed.  A JSON value is a record [ty, s]: ty is the   *)
(* Python type the value decodes to, s its text.                           *)
(***************************************************************************)
EXTENDS Integers, Sequences, FiniteSets, TLC

VARIABLES
    api_key_configured, \* os.environ.get("ANTHROPIC_API_KEY") is set
    pc,                 \* position of the request being served
    route,              \* the endpoint of the request
    letter_name,        \* solicitor_letter.filename
    audiogram_name,     \* audiogram.filename
    letter_bytes,       \* the uploaded letter's content
    files_read,         \* the uploads whose read() has returned
    payload,            \* the content block sent with the letter prompt
    oracle_calls,       \* client.messages.create calls of this request
    message,            \* message.content[0].text of the last reply
    solicitor_data,     \* outcome of extract_from_solicitor_letter
    audiogram_data,     \* outcome of extract_from_audiogram
    exc,                \* the exception that reached the endpoint's except
    responses,          \* HTTP responses sent for this request
    date_str,           \* DateSpec: the raw value given to _validate_date
    expected_format,    \* DateSpec: the target format
    date_out,           \* DateSpec: the outcome of _validate_date
    reply_text,         \* FenceSpec: a JSON object text t
    fence,              \* FenceSpec: how t is wrapped
    fence_out           \* FenceSpec: the records from t and from fenced t

svars == <<api_key_configured, pc, route, letter_name, audiogram_name,
           letter_bytes, files_read, payload, oracle_calls, message,
           solicitor_data, audiogram_data, exc, responses>>
dvars == <<date_str, expected_format, date_out>>
fvars == <<reply_text, fence, fence_out>>
vars == <<svars, dvars, fvars>>

(***************************************************************************)
(* Bounds                                                                  *)
(***************************************************************************)
\* longest run of whitespace put around a text
MaxPad == 1
\* longest uploaded letter, in bytes
MaxBytes == 1

(***************************************************************************)
(* Text and JSON values                                                    *)
(***************************************************************************)
Digits == <<"0", "1", "2", "3", "4", "5", "6", "7", "8", "9">>
DigitSet == {Digits[i] : i \in 1..10}
WS == " "

Str(s) == [ty |-> "str", s |-> s]
Null == [ty |-> "null", s |-> <<"null">>]
Num(s) == [ty |-> "int", s |-> s]
Bool(s) == [ty |-> "bool", s |-> s]
EmptyStr == Str(<<>>)
NoValue == [ty |-> "unset", s |-> <<>>]

\* Python truthiness of a decoded JSON value: bool(v)
Truthy(v) ==
    CASE v.ty = "str" -> v.s # <<>>
      [] v.ty = "int" -> \E i \in 1..Len(v.s) : v.s[i] # "0"
      [] v.ty = "bool" -> v.s = <<"true">>
      [] OTHER -> FALSE

\* the outcome of a call: a returned value, or a raised exception
Return(v) == [raised |-> FALSE, v |-> v, error |-> "", status |-> 0]
Raise(error, status) == [raised |-> TRUE, v |-> NoValue, error |-> error, status |-> status]
NoOutcome == [raised |-> FALSE, v |-> NoValue, error |-> "", status |-> 0]

RECURSIVE LStrip(_)
LStrip(s) == IF s # <<>> /\ Head(s) = WS THEN LStrip(Tail(s)) ELSE s

RECURSIVE RStrip(_)
RStrip(s) ==
    IF s # <<>> /\ s[Len(s)] = WS THEN RStrip(SubSeq(s, 1, Len(s) - 1)) ELSE s

\* str.strip()
Strip(s) == RStrip(LStrip(s))

\* s[i..] starts with the text p
StartsAt(s, i, p) ==
    /\ i + Len(p) - 1 <= Len(s)
    /\ \A j \in 1..Len(p) : s[i + j - 1] = p[j]

\* str.replace(old, ''): every non-overlapping occurrence, left to right
RECURSIVE Remove(_, _)
Remove(s, old) ==
    IF s = <<>> THEN <<>>
    ELSE IF StartsAt(s, 1, old) THEN Remove(SubSeq(s, Len(old) + 1, Len(s)), old)
    ELSE <<Head(s)>> \o Remove(Tail(s), old)

\* str.split(sep): the pieces between the separators
RECURSIVE Split(_, _)
Split(s, sep) ==
    IF \A i \in 1..Len(s) : s[i] # sep THEN <<s>>
    ELSE LET k == CHOOSE i \in 1..Len(s) : s[i] = sep /\ \A j \in 1..(i - 1) : s[j] # sep
         IN <<SubSeq(s, 1, k - 1)>> \o Split(SubSeq(s, k + 1, Len(s)), sep)

\* sep.join(parts)
RECURSIVE Join(_, _)
Join(parts, sep) ==
    IF Len(parts) = 0 THEN <<>>
    ELSE IF Len(parts) = 1 THEN parts[1]
    ELSE parts[1] \o <<sep>> \o Join(Tail(parts), sep)

\* str.lower() on file-name lexemes
LowerLex(c) ==
    CASE c = "PDF" -> "pdf"
      [] c = "JPG" -> "jpg"
      [] c = "PNG" -> "png"
      [] OTHER -> c
Lower(s) == [i \in 1..Len(s) |-> LowerLex(s[i])]

DigitVal(c) == (CHOOSE i \in 1..10 : Digits[i] = c) - 1

\* int(text) for a text of decimal digits
RECURSIVE IntOf(_)
IntOf(s) == IF s = <<>> THEN 0 ELSE 10 * IntOf(SubSeq(s, 1, Len(s) - 1)) + DigitVal(s[Len(s)])

\* the digits of n, most significant first
RECURSIVE Decimal(_)
Decimal(n) == IF n < 10 THEN <<Digits[n + 1]>> ELSE Decimal(n \div 10) \o <<Digits[(n % 10) + 1]>>

\* f"{n:02d}"
Format02d(n) == IF n < 10 THEN <<"0">> \o Decimal(n) ELSE Decimal(n)

(***************************************************************************)
(* DocumentExtractor._validate_date                                        *)
(***************************************************************************)
DDMMYYYY == "DD/MM/YYYY"
DDMMYY == "DD/MM/YY"
Formats == {DDMMYYYY, DDMMYY}

\* re.match(r'^\d{2}/\d{2}/\d{N}$', s), N the number of year digits
MatchDate(s, yearDigits) ==
    /\ Len(s) = 6 + yearDigits
    /\ \A i \in 1..Len(s) : IF i \in {3, 6} THEN s[i] = "/" ELSE s[i] \in DigitSet

YearDigits(fmt) == IF fmt = DDMMYYYY THEN 4 ELSE 2

\* parts[2] = parts[2][-2:]
TruncateYear(s) ==
    LET parts == Split(s, "/")
    IN Join(<<parts[1], parts[2], SubSeq(parts[3], Len(parts[3]) - 1, Len(parts[3]))>>, "/")

\* the year of a DD/MM/YY text with the century put in front
ExpandYearLate(s) ==
    LET parts == Split(s, "/")
        year == IntOf(parts[3])
    IN Join(<<parts[1], parts[2],
              (IF year < 30 THEN <<"2", "0">> ELSE <<"1", "9">>) \o Format02d(year)>>, "/")

\* parts[2] = f"20{year:02d}" if year <= 30 else f"19{year:02d}"
ExpandYear(s) ==
    LET parts == Split(s, "/")
        year == IntOf(parts[3])
    IN Join(<<parts[1], parts[2],
              (IF year <= 30 THEN <<"2", "0">> ELSE <<"1", "9">>) \o Format02d(year)>>, "/")

_validate_date(raw, fmt) ==
    IF ~Truthy(raw) THEN Return(EmptyStr)
    ELSE IF raw.ty # "str" THEN Raise("AttributeError", 0)
    ELSE LET s == Strip(raw.s)
         IN IF MatchDate(s, YearDigits(fmt)) THEN Return(Str(s))
            ELSE IF fmt = DDMMYY /\ MatchDate(s, 4) THEN Return(Str(TruncateYear(s)))
            ELSE IF fmt = DDMMYYYY /\ MatchDate(s, 2) THEN Return(Str(ExpandYear(s)))
            ELSE Return(Str(s))

(***************************************************************************)
(* json.loads on the lexemes of a reply                                    *)
(***************************************************************************)
QUOTE == "\""
SolicitorKeys == <<"solicitor_ref", "name", "address", "dob">>
AudiogramKeys == <<"audiogram_date">>
ResultKeys == SolicitorKeys \o AudiogramKeys
Range(seq) == {seq[i] : i \in 1..Len(seq)}
\* the member names a reply may use
MemberNames == Range(ResultKeys) \cup {"note"}

EmptyDict == [k \in {} |-> Null]
\* the dict d with d[k] = v
Put(d, k, v) == [x \in DOMAIN d \cup {k} |-> IF x = k THEN v ELSE d[x]]
\* dict.get(k, "")
Get(d, k) == IF k \in DOMAIN d THEN d[k] ELSE EmptyStr

Parsed(v, next) == [ok |-> TRUE, v |-> v, next |-> next]
ParseFail == [ok |-> FALSE, v |-> Null, next |-> 0]

RECURSIVE SkipWS(_, _)
SkipWS(s, i) == IF i <= Len(s) /\ s[i] = WS THEN SkipWS(s, i + 1) ELSE i

\* the end of the run of digits that starts at i
RECURSIVE DigitsEnd(_, _)
DigitsEnd(s, i) == IF i <= Len(s) /\ s[i] \in DigitSet THEN DigitsEnd(s, i + 1) ELSE i

\* a string, a number or a literal at s[i]
ParseScalar(s, i) ==
    IF i > Len(s) THEN ParseFail
    ELSE IF s[i] = QUOTE THEN
        IF \E k \in (i + 1)..Len(s) : s[k] = QUOTE
        THEN LET k == CHOOSE k \in (i + 1)..Len(s) :
                          s[k] = QUOTE /\ \A j \in (i + 1)..(k - 1) : s[j] # QUOTE
             IN Parsed(Str(SubSeq(s, i + 1, k - 1)), k + 1)
        ELSE ParseFail
    ELSE IF s[i] = "0" THEN Parsed(Num(<<"0">>), i + 1)
    ELSE IF s[i] \in DigitSet THEN
        LET e == DigitsEnd(s, i) IN Parsed(Num(SubSeq(s, i, e - 1)), e)
    ELSE IF s[i] = "null" THEN Parsed(Null, i + 1)
    ELSE IF s[i] \in {"true", "false"} THEN Parsed(Bool(<<s[i]>>), i + 1)
    ELSE ParseFail

\* the members of an object from s[i] on, added to acc; a repeated name keeps the last
RECURSIVE ParseMembers(_, _, _)
ParseMembers(s, i, acc) ==
    IF i > Len(s) \/ s[i] \notin MemberNames THEN ParseFail
    ELSE LET c == SkipWS(s, i + 1)
         IN IF c > Len(s) \/ s[c] # ":" THEN ParseFail
            ELSE LET val == ParseScalar(s, SkipWS(s, c + 1))
                 IN IF ~val.ok THEN ParseFail
                    ELSE LET d == Put(acc, s[i], val.v)
                             e == SkipWS(s, val.next)
                         IN IF e > Len(s) THEN ParseFail
                            ELSE IF s[e] = "}" THEN Parsed(d, e + 1)
                            ELSE IF s[e] = "," THEN ParseMembers(s, SkipWS(s, e + 1), d)
                            ELSE ParseFail

ParseObject(s, i) ==
    LET m == SkipWS(s, i + 1)
    IN IF m <= Len(s) /\ s[m] = "}" THEN Parsed(EmptyDict, m + 1)
       ELSE ParseMembers(s, m, EmptyDict)

\* json.loads(s): ok is false for JSONDecodeError; isobj tells a dict from another value
Loads(s) ==
    LET i == SkipWS(s, 1)
        isobj == i <= Len(s) /\ s[i] = "{"
        val == IF isobj THEN ParseObject(s, i) ELSE ParseScalar(s, i)
    IN IF val.ok /\ SkipWS(s, val.next) = Len(s) + 1
       THEN [ok |-> TRUE, isobj |-> isobj, obj |-> IF isobj THEN val.v ELSE EmptyDict]
       ELSE [ok |-> FALSE, isobj |-> FALSE, obj |-> EmptyDict]

\* the JSON text of a value
RenderValue(v) == IF v.ty = "str" THEN <<QUOTE>> \o v.s \o <<QUOTE>> ELSE v.s

\* the JSON text of the members of d named in keys, in that order
RECURSIVE RenderMembers(_, _)
RenderMembers(d, keys) ==
    IF keys = <<>> THEN <<>>
    ELSE IF Head(keys) \notin DOMAIN d THEN RenderMembers(d, Tail(keys))
    ELSE LET rest == RenderMembers(d, Tail(keys))
         IN <<Head(keys), ":", WS>> \o RenderValue(d[Head(keys)])
            \o (IF rest = <<>> THEN <<>> ELSE <<",", WS>> \o rest)

\* the JSON object text of d
Render(d, keys) == <<"{">> \o RenderMembers(d, keys) \o <<"}">>

(***************************************************************************)
(* The reply clean-up and the two extractions, from the reply on           *)
(***************************************************************************)
\* the backquote is written "BQ"
BQ == "BQ"
FenceJson == <<BQ, BQ, BQ, "json">>
FenceBare == <<BQ, BQ, BQ>>

\* only the language-tagged fence is removed
CleanTaggedOnly(text) == Strip(Remove(Strip(text), FenceJson))

\* message.content[0].text.strip(), then both fences replaced by '', then .strip()
Clean(text) == Strip(Remove(Remove(Strip(text), FenceJson), FenceBare))

\* the dict extract_from_solicitor_letter returns for the parsed object d
SolicitorRecord(d) ==
    LET dob == _validate_date(Get(d, "dob"), DDMMYYYY)
    IN IF dob.raised THEN dob
       ELSE Return([k \in Range(SolicitorKeys) |-> IF k = "dob" THEN dob.v ELSE Get(d, k)])

\* the dict extract_from_audiogram returns for the parsed object d
AudiogramRecord(d) ==
    LET date == _validate_date(Get(d, "audiogram_date"), DDMMYY)
    IN IF date.raised THEN date
       ELSE Return([k \in Range(AudiogramKeys) |-> date.v])

\* a reply that does not parse degrades to the empty object
ParseReplyDegrade(text) ==
    LET parsed == Loads(Clean(text))
    IN IF ~parsed.ok THEN Return(EmptyDict)
       ELSE IF ~parsed.isobj THEN Raise("AttributeError", 0)
       ELSE Return(parsed.obj)

\* lines 136-151 and 237-249: the parsed object, or the exception raised
ParseReply(text) ==
    LET parsed == Loads(Clean(text))
    IN IF ~parsed.ok THEN Raise("HTTPException", 500)
       ELSE IF ~parsed.isobj THEN Raise("AttributeError", 0)
       ELSE Return(parsed.obj)

\* extract_from_solicitor_letter from the oracle's reply on
SolicitorFromReply(text) ==
    LET parsed == ParseReply(text)
    IN IF parsed.raised THEN parsed ELSE SolicitorRecord(parsed.v)

\* extract_from_audiogram from the oracle's reply on
AudiogramFromReply(text) ==
    LET parsed == ParseReply(text)
    IN IF parsed.raised THEN parsed ELSE AudiogramRecord(parsed.v)

(***************************************************************************)
(* File names, media types and the letter's payload                        *)
(***************************************************************************)
\* str.endswith(suffix)
EndsWith(s, suffix) ==
    Len(s) >= Len(suffix) /\ SubSeq(s, Len(s) - Len(suffix) + 1, Len(s)) = suffix

\* the test is made on the name as given, not lower-cased
IsPdfCaseSensitive(filename) == EndsWith(filename, <<".", "pdf">>)

\* is_pdf = filename.lower().endswith('.pdf')
IsPdf(filename) == EndsWith(Lower(filename), <<".", "pdf">>)

\* file_ext = filename.lower().split('.')[-1]
FileExt(filename) ==
    LET pieces == Split(Lower(filename), ".") IN pieces[Len(pieces)]

Unsupported == "unsupported"

\* lines 172-179: the media type of an audiogram, or Unsupported where the code raises
MediaType(filename) ==
    LET file_ext == FileExt(filename)
    IN CASE file_ext = <<"pdf">> -> "application/pdf"
         [] file_ext \in {<<"jpg">>, <<"jpeg">>} -> "image/jpeg"
         [] file_ext = <<"png">> -> "image/png"
         [] OTHER -> Unsupported

\* a byte below 128 is a complete UTF-8 character; 255 never occurs in UTF-8
ValidByte(b) == b < 128

\* file_content.decode('utf-8', errors='ignore'): invalid bytes are dropped
RECURSIVE Decode(_)
Decode(bytes) ==
    IF bytes = <<>> THEN <<>>
    ELSE (IF ValidByte(Head(bytes)) THEN <<Head(bytes)>> ELSE <<>>) \o Decode(Tail(bytes))

NoPayload == [type |-> "none", encoding |-> "", media_type |-> "", text |-> <<>>]

\* lines 52-133: the content sent with the letter prompt
LetterPayload(file_content, filename) ==
    IF IsPdf(filename)
    THEN [type |-> "document", encoding |-> "base64",
          media_type |-> "application/pdf", text |-> <<>>]
    ELSE [type |-> "text", encoding |-> "", media_type |-> "",
          text |-> Decode(file_content)]

(***************************************************************************)
(* The oracle and the requests                                             *)
(***************************************************************************)
\* the dict with the members of f that are given
MkDict(f) == [k \in {x \in DOMAIN f : f[x] # NoValue} |-> f[k]]

Pad(n) == [i \in 1..n |-> WS]

LongDate == <<"1", "0", "/", "0", "3", "/", "1", "9", "7", "8">>
ShortDate == <<"2", "4", "/", "0", "8", "/", "2", "5">>
ProseDate == <<"M", "a", "r", "c", "h", WS, "1", "9", "7", "8">>

LetterDicts ==
    {MkDict([solicitor_ref |-> r, name |-> n, address |-> a, dob |-> d]) :
        r \in {NoValue, Str(<<"R">>)},
        n \in {NoValue, Str(<<"A">>), EmptyStr, Null, Num(<<"5">>)},
        a \in {Str(<<"A">>), EmptyStr},
        d \in {NoValue, Null, Str(LongDate), Str(ShortDate), Str(ProseDate), Num(<<"5">>)}}

AudiogramDicts ==
    {MkDict([audiogram_date |-> d, note |-> n]) :
        d \in {NoValue, Null, EmptyStr, Str(LongDate), Str(ShortDate), Str(ProseDate),
               Num(<<"5">>)},
        n \in {NoValue}}

\* replies that are no JSON object: nothing, prose, a cut-off object, a bare literal
OtherReplies ==
    {<<>>, <<"S", "o", "r", "r", "y">>, <<"{", "name", ":">>, <<"null">>}

FullLetter ==
    MkDict([solicitor_ref |-> Str(<<"R">>), name |-> Str(<<"A">>),
            address |-> Str(<<"A">>), dob |-> Str(LongDate)])

LetterReplies ==
    {Render(d, ResultKeys) : d \in LetterDicts}
    \cup {FenceJson \o <<WS>> \o Render(FullLetter, ResultKeys) \o <<WS>> \o FenceBare}
    \cup OtherReplies

AudiogramReplies ==
    {Render(d, ResultKeys) : d \in AudiogramDicts}
    \cup {FenceBare \o <<WS>> \o Render(MkDict([audiogram_date |-> Str(ShortDate)]), ResultKeys)
          \o <<WS>> \o FenceBare}
    \cup OtherReplies

\* line 34: the client is built with whatever key the environment holds; a call
\* made without a key cannot authenticate and raises instead of replying
OracleReplies(replies) == IF api_key_configured THEN replies ELSE {}

FileNames ==
    {<<"x", ".", "pdf">>, <<"x", ".", "PDF">>, <<"x", ".", "jpg">>, <<"x", ".", "jpeg">>,
     <<"x", ".", "png">>, <<"x", ".", "gif">>, <<"x">>, <<"pdf">>}

FileContents == UNION {[1..n -> {65, 255}] : n \in 0..MaxBytes}

Routes == {"extract", "solicitor", "audiogram"}

\* GET /: the body of the health check
RootBodyWithFlag ==
    [status |-> "online", service |-> "MNIHL Document Extraction API", version |-> "1.0.0",
     api_key_configured |-> api_key_configured]

RootBody ==
    [status |-> "online", service |-> "MNIHL Document Extraction API", version |-> "1.0.0"]

Response(status, body, confidence) ==
    [status |-> status, body |-> body, confidence |-> confidence]

\* the status of the exception e itself
StatusOf(e) == IF e.error = "HTTPException" THEN e.status ELSE 500

\* lines 374-376, 388-389, 401-402: every exception becomes HTTPException(500)
HandlerStatus(e) == 500

\* dict.get(k): None when k is missing
GetNone(d, k) == IF k \in DOMAIN d THEN d[k] ELSE Null

\* lines 355-368: the combined result and its confidence map
Combine(s, a) ==
    LET both == [k \in Range(ResultKeys) |->
                    IF k \in Range(SolicitorKeys) THEN s ELSE a]
    IN Response(200,
                [k \in Range(ResultKeys) |-> Get(both[k], k)],
                [k \in Range(ResultKeys) |-> Truthy(GetNone(both[k], k))])

\* where the endpoint goes when extract_from_solicitor_letter has ended with out
AfterLetter(out) ==
    IF out.raised THEN "except"
    ELSE IF route = "solicitor" THEN "respond" ELSE "audiogram"

\* where the endpoint goes when extract_from_audiogram has ended with out
AfterAudiogram(out) == IF out.raised THEN "except" ELSE "respond"

ServiceIdle ==
    /\ pc = "idle"
    /\ route = "none"
    /\ letter_name = <<>>
    /\ audiogram_name = <<>>
    /\ letter_bytes = <<>>
    /\ files_read = {}
    /\ payload = NoPayload
    /\ oracle_calls = <<>>
    /\ message = [letter |-> <<>>, audiogram |-> <<>>]
    /\ solicitor_data = NoOutcome
    /\ audiogram_data = NoOutcome
    /\ exc = NoOutcome
    /\ responses = <<>>

DateIdle == date_str = NoValue /\ expected_format = DDMMYYYY /\ date_out = NoOutcome
FenceIdle == reply_text = <<>> /\ fence = <<>> /\ fence_out = <<>>

Init ==
    /\ api_key_configured \in BOOLEAN
    /\ ServiceIdle
    /\ DateIdle
    /\ FenceIdle

\* GET /
root ==
    /\ pc = "idle"
    /\ route' = "root"
    /\ responses' = <<Response(200, RootBody, EmptyDict)>>
    /\ pc' = "done"
    /\ UNCHANGED <<api_key_configured, letter_name, audiogram_name, letter_bytes,
                   files_read, payload, oracle_calls, message, solicitor_data,
                   audiogram_data, exc, dvars, fvars>>

\* a POST arrives with its uploads
Receive ==
    /\ pc = "idle"
    /\ \E r \in Routes :
          /\ route' = r
          /\ IF r = "audiogram"
             THEN letter_name' = <<>> /\ letter_bytes' = <<>>
             ELSE letter_name' \in FileNames /\ letter_bytes' \in FileContents
          /\ IF r = "solicitor"
             THEN audiogram_name' = <<>>
             ELSE audiogram_name' \in FileNames
    /\ pc' = "read"
    /\ UNCHANGED <<api_key_configured, files_read, payload, oracle_calls, message,
                   solicitor_data, audiogram_data, exc, responses, dvars, fvars>>

\* lines 337-338, 385, 398: await upload.read()
ReadFiles ==
    /\ pc = "read"
    /\ files_read' = CASE route = "extract" -> {"solicitor_letter", "audiogram"}
                       [] route = "solicitor" -> {"solicitor_letter"}
                       [] OTHER -> {"audiogram"}
    /\ pc' = IF route = "audiogram" THEN "audiogram" ELSE "letter"
    /\ UNCHANGED <<api_key_configured, route, letter_name, audiogram_name, letter_bytes,
                   payload, oracle_calls, message, solicitor_data, audiogram_data, exc,
                   responses, dvars, fvars>>

\* lines 52-133: the payload is built and the oracle is called for the letter
LetterInvoke ==
    /\ pc = "letter"
    /\ payload' = LetterPayload(letter_bytes, letter_name)
    /\ oracle_calls' = Append(oracle_calls, "letter")
    /\ \/ /\ solicitor_data' = Raise("APIError", 0)
          /\ pc' = AfterLetter(solicitor_data')
          /\ UNCHANGED message
       \/ /\ \E text \in OracleReplies(LetterReplies) :
                message' = [message EXCEPT !.letter = text]
          /\ pc' = "letter_parse"
          /\ UNCHANGED solicitor_data
    /\ UNCHANGED <<api_key_configured, route, letter_name, audiogram_name, letter_bytes,
                   files_read, audiogram_data, exc, responses, dvars, fvars>>

\* lines 136-159: the reply is cleaned, parsed and made a record
LetterParse ==
    /\ pc = "letter_parse"
    /\ solicitor_data' = SolicitorFromReply(message.letter)
    /\ pc' = AfterLetter(solicitor_data')
    /\ UNCHANGED <<api_key_configured, route, letter_name, audiogram_name, letter_bytes,
                   files_read, payload, oracle_calls, message, audiogram_data, exc,
                   responses, dvars, fvars>>

\* lines 170-179: the media type, or HTTPException(400)
AudiogramMediaType ==
    /\ pc = "audiogram"
    /\ IF MediaType(audiogram_name) = Unsupported
       THEN /\ audiogram_data' = Raise("HTTPException", 400)
            /\ pc' = AfterAudiogram(audiogram_data')
       ELSE /\ pc' = "audiogram_call"
            /\ UNCHANGED audiogram_data
    /\ UNCHANGED <<api_key_configured, route, letter_name, audiogram_name, letter_bytes,
                   files_read, payload, oracle_calls, message, solicitor_data, exc,
                   responses, dvars, fvars>>

\* lines 181-235: the oracle is called for the audiogram
AudiogramInvoke ==
    /\ pc = "audiogram_call"
    /\ oracle_calls' = Append(oracle_calls, "audiogram")
    /\ \/ /\ audiogram_data' = Raise("APIError", 0)
          /\ pc' = AfterAudiogram(audiogram_data')
          /\ UNCHANGED message
       \/ /\ \E text \in OracleReplies(AudiogramReplies) :
                message' = [message EXCEPT !.audiogram = text]
          /\ pc' = "audiogram_parse"
          /\ UNCHANGED audiogram_data
    /\ UNCHANGED <<api_key_configured, route, letter_name, audiogram_name, letter_bytes,
                   files_read, payload, solicitor_data, exc, responses, dvars, fvars>>

\* lines 237-253
AudiogramParse ==
    /\ pc = "audiogram_parse"
    /\ audiogram_data' = AudiogramFromReply(message.audiogram)
    /\ pc' = AfterAudiogram(audiogram_data')
    /\ UNCHANGED <<api_key_configured, route, letter_name, audiogram_name, letter_bytes,
                   files_read, payload, oracle_calls, message, solicitor_data, exc,
                   responses, dvars, fvars>>

\* lines 355-372, 387, 400: JSONResponse(content=result)
Respond ==
    /\ pc = "respond"
    /\ responses' = Append(responses,
          CASE route = "extract" -> Combine(solicitor_data.v, audiogram_data.v)
            [] route = "solicitor" -> Response(200, solicitor_data.v, EmptyDict)
            [] OTHER -> Response(200, audiogram_data.v, EmptyDict))
    /\ pc' = "done"
    /\ UNCHANGED <<api_key_configured, route, letter_name, audiogram_name, letter_bytes,
                   files_read, payload, oracle_calls, message, solicitor_data,
                   audiogram_data, exc, dvars, fvars>>

\* lines 374-376, 388-389, 401-402: except Exception
Except ==
    /\ pc = "except"
    /\ exc' = IF solicitor_data.raised THEN solicitor_data ELSE audiogram_data
    /\ responses' = Append(responses, Response(HandlerStatus(exc'), EmptyDict, EmptyDict))
    /\ pc' = "done"
    /\ UNCHANGED <<api_key_configured, route, letter_name, audiogram_name, letter_bytes,
                   files_read, payload, oracle_calls, message, solicitor_data,
                   audiogram_data, dvars, fvars>>

\* the request is over and its locals are gone; the next one starts afresh
NextRequest ==
    /\ pc = "done"
    /\ pc' = "idle"
    /\ route' = "none"
    /\ letter_name' = <<>>
    /\ audiogram_name' = <<>>
    /\ letter_bytes' = <<>>
    /\ files_read' = {}
    /\ payload' = NoPayload
    /\ oracle_calls' = <<>>
    /\ message' = [letter |-> <<>>, audiogram |-> <<>>]
    /\ solicitor_data' = NoOutcome
    /\ audiogram_data' = NoOutcome
    /\ exc' = NoOutcome
    /\ responses' = <<>>
    /\ UNCHANGED <<api_key_configured, dvars, fvars>>

Next ==
    \/ root
    \/ Receive
    \/ ReadFiles
    \/ LetterInvoke
    \/ LetterParse
    \/ AudiogramMediaType
    \/ AudiogramInvoke
    \/ AudiogramParse
    \/ Respond
    \/ Except
    \/ NextRequest

Spec == Init /\ [][Next]_vars

(***************************************************************************)
(* DateSpec: _validate_date applied to one raw value                       *)
(***************************************************************************)
TwoDigits == {<<a, b>> : a \in DigitSet, b \in DigitSet}
Days == {<<"1", "0">>, <<"2", "4">>}
Months == {<<"0", "3">>}
ShortDates == {d \o <<"/">> \o m \o <<"/">> \o y : d \in Days, m \in Months, y \in TwoDigits}
LongDates ==
    {d \o <<"/">> \o m \o <<"/">> \o c \o y :
        d \in Days, m \in Months, c \in {<<"1", "9">>, <<"2", "0">>}, y \in TwoDigits}
Malformed ==
    {ProseDate, <<"1", "/", "3", "/", "7", "8">>,
     <<"1", "0", "-", "0", "3", "-", "1", "9", "7", "8">>,
     <<"1", "0", "/", "0", "3", "/", "1", "9", "7">>}
Padded(texts) ==
    {Pad(l) \o t \o Pad(r) : l \in 0..MaxPad, r \in 0..MaxPad, t \in texts}

DateInputs ==
    {Str(t) : t \in ShortDates \cup LongDates \cup Malformed}
    \cup {Str(t) : t \in Padded({<<>>, LongDate, ShortDate, ProseDate})}
    \cup {Null, Num(<<"0">>), Num(<<"5">>), Bool(<<"true">>), Bool(<<"false">>)}

DateInit ==
    /\ api_key_configured = TRUE
    /\ ServiceIdle
    /\ FenceIdle
    /\ date_str \in DateInputs
    /\ expected_format \in Formats
    /\ date_out = NoOutcome

\* self._validate_date(date_str, expected_format)
ValidateDate ==
    /\ date_out = NoOutcome
    /\ date_out' = _validate_date(date_str, expected_format)
    /\ UNCHANGED <<svars, fvars, date_str, expected_format>>

DateNext == ValidateDate

DateSpec == DateInit /\ [][DateNext]_vars

(***************************************************************************)
(* FenceSpec: both extractions applied to a JSON object text and to the    *)
(* same text inside markdown fences                                        *)
(***************************************************************************)
FenceDicts ==
    {MkDict([name |-> n, dob |-> d, audiogram_date |-> a]) :
        n \in {NoValue, Null, Str(<<"A">>), Str(<<"a", BQ, BQ, BQ, "json", "b">>)},
        d \in {NoValue, Str(ShortDate), Num(<<"5">>)},
        a \in {NoValue, Str(LongDate)}}

FenceForms ==
    [tag : {"json", "bare"}, lead : 0..MaxPad, inner : 0..MaxPad, trail : 0..MaxPad]

\* the text t inside the fences of form f
Wrap(t, f) ==
    Pad(f.lead) \o (IF f.tag = "json" THEN FenceJson ELSE FenceBare) \o Pad(f.inner)
    \o t \o Pad(f.inner) \o FenceBare \o Pad(f.trail)

FenceInit ==
    /\ api_key_configured = TRUE
    /\ ServiceIdle
    /\ DateIdle
    /\ reply_text \in {Render(d, ResultKeys) : d \in FenceDicts}
    /\ fence \in FenceForms
    /\ fence_out = <<>>

\* lines 136-159 and 237-253 on the plain and on the fenced reply
ExtractBoth ==
    /\ fence_out = <<>>
    /\ fence_out' =
          [letter |-> SolicitorFromReply(reply_text),
           letter_fenced |-> SolicitorFromReply(Wrap(reply_text, fence)),
           audiogram |-> AudiogramFromReply(reply_text),
           audiogram_fenced |-> AudiogramFromReply(Wrap(reply_text, fence))]
    /\ UNCHANGED <<svars, dvars, reply_text, fence>>

FenceNext == ExtractBoth

FenceSpec == FenceInit /\ [][FenceNext]_vars

(***************************************************************************)
(* Properties                                                              *)
(***************************************************************************)
\* the reply is no JSON text once trimmed and stripped of fences
Unparseable(text) == ~Loads(Clean(text)).ok

\* the oracle replied to the letter call and the reply has been handled
LetterReplied == solicitor_data # NoOutcome /\ solicitor_data.error # "APIError"
AudiogramReplied ==
    /\ audiogram_data # NoOutcome
    /\ audiogram_data.error # "APIError"
    /\ "audiogram" \in Range(oracle_calls)

EmptyRecord(keys) == [k \in Range(keys) |-> EmptyStr]

Served == pc = "done" /\ Len(responses) = 1

\* C1 as stated: a reply that is not parseable as JSON makes each extraction
\* return the record of empty strings, and the request does not end in an error.
C1_DegradesToEmpty ==
    /\ LetterReplied /\ Unparseable(message.letter)
          => /\ solicitor_data = Return(EmptyRecord(SolicitorKeys))
             /\ Served => responses[1].status # 500
    /\ AudiogramReplied /\ Unparseable(message.audiogram)
          => /\ audiogram_data = Return(EmptyRecord(AudiogramKeys))
             /\ Served => responses[1].status # 500

\* C1 amended: a reply that is not parseable as JSON makes each extraction raise
\* HTTPException(500) and return no record, and the endpoint answers 500.
C1_RaisesOnUnparseable ==
    /\ LetterReplied /\ Unparseable(message.letter)
          => /\ solicitor_data = Raise("HTTPException", 500)
             /\ Served => responses[1].status = 500
    /\ AudiogramReplied /\ Unparseable(message.audiogram)
          => /\ audiogram_data = Raise("HTTPException", 500)
             /\ Served => responses[1].status = 500

C1_Witness ==
    /\ Served
    /\ route = "extract"
    /\ message.letter = <<"S", "o", "r", "r", "y">>
    /\ solicitor_data.raised
    /\ responses[1].status = 500

IsString(v) == v.ty = "str"

\* C2: every record the extractions return, and every 200 body of POST
\* /api/extract, holds each expected key with a string value.
C2_EveryFieldIsString ==
    /\ solicitor_data # NoOutcome /\ ~solicitor_data.raised
          => \A k \in Range(SolicitorKeys) :
                k \in DOMAIN solicitor_data.v /\ IsString(solicitor_data.v[k])
    /\ audiogram_data # NoOutcome /\ ~audiogram_data.raised
          => \A k \in Range(AudiogramKeys) :
                k \in DOMAIN audiogram_data.v /\ IsString(audiogram_data.v[k])
    /\ Served /\ route = "extract" /\ responses[1].status = 200
          => \A k \in Range(ResultKeys) :
                k \in DOMAIN responses[1].body /\ IsString(responses[1].body[k])

\* C3: in a 200 body of POST /api/extract the confidence map has the five keys
\* of the result, and confidence[f] is true exactly when f's value is a
\* non-empty string.
C3_ConfidenceIffNonEmptyString ==
    Served /\ route = "extract" /\ responses[1].status = 200
        => /\ DOMAIN responses[1].confidence = Range(ResultKeys)
           /\ \A f \in Range(ResultKeys) :
                 responses[1].confidence[f]
                    <=> (IsString(responses[1].body[f]) /\ responses[1].body[f].s # <<>>)

MalformedRaw(v) ==
    \/ /\ v.ty = "str"
       /\ v.s # <<>>
       /\ ~MatchDate(v.s, 4)
       /\ ~MatchDate(v.s, 2)
    \/ v.ty \in {"int", "bool"} /\ Truthy(v)

\* C5: a non-empty raw value of neither date form comes back from
\* _validate_date unchanged: nothing is raised and the result is not empty.
C5_MalformedUnchanged ==
    date_out # NoOutcome /\ MalformedRaw(date_str)
        => date_out = Return(date_str)

\* C6: for a raw DD/MM/YY and the target DD/MM/YYYY the result keeps day and
\* month and puts 20 before a year in 00..30 and 19 before a year in 31..99,
\* and it has the DD/MM/YYYY form.
C6_YearExpansion ==
    /\ date_out # NoOutcome
    /\ expected_format = DDMMYYYY
    /\ date_str.ty = "str"
    /\ MatchDate(date_str.s, 2)
    => LET s == date_str.s
           yy == 10 * DigitVal(s[7]) + DigitVal(s[8])
           century == IF yy \in 0..30 THEN <<"2", "0">> ELSE <<"1", "9">>
       IN /\ date_out = Return(Str(SubSeq(s, 1, 6) \o century \o SubSeq(s, 7, 8)))
          /\ MatchDate(date_out.v.s, 4)

C6_Witness ==
    /\ date_str = Str(<<"1", "0", "/", "0", "3", "/", "3", "0">>)
    /\ expected_format = DDMMYYYY
    /\ date_out = Return(Str(<<"1", "0", "/", "0", "3", "/", "2", "0", "3", "0">>))

\* the name ends in a dot and the extension e, in any case
HasExtension(filename, e) ==
    /\ Len(filename) >= 2
    /\ Lower(filename)[Len(filename) - 1] = "."
    /\ Lower(filename)[Len(filename)] = e

\* C7: an audiogram whose name has none of the extensions pdf, jpg, jpeg, png
\* (another extension, or none) gets the unsupported-type error from
\* extract_from_audiogram on either endpoint, and no oracle call is made for it.
C7_UnsupportedFailsFast ==
    /\ route \in {"extract", "audiogram"}
    /\ \A e \in {"pdf", "jpg", "jpeg", "png"} : ~HasExtension(audiogram_name, e)
    => /\ pc \notin {"audiogram_call", "audiogram_parse"}
       /\ "audiogram" \notin Range(oracle_calls)
       /\ audiogram_data # NoOutcome => audiogram_data = Raise("HTTPException", 400)

\* C8 as stated: the letter's payload is a document block for .pdf, an
\* image/jpeg block for .jpg and .jpeg, an image/png block for .png, and raw
\* text for any other name.
C8_DispatchByExtension ==
    payload # NoPayload =>
        CASE HasExtension(letter_name, "pdf") ->
                payload.type = "document" /\ payload.media_type = "application/pdf"
          [] HasExtension(letter_name, "jpg") \/ HasExtension(letter_name, "jpeg") ->
                payload.type = "image" /\ payload.media_type = "image/jpeg"
          [] HasExtension(letter_name, "png") ->
                payload.type = "image" /\ payload.media_type = "image/png"
          [] OTHER -> payload.type = "text"

\* C8 amended: the letter's payload is a base64 document block when the name
\* ends in .pdf (in any case), and for every other name, .jpg, .jpeg and .png
\* included, it is the content decoded as text with the invalid bytes dropped.
C8_PdfOrText ==
    payload # NoPayload =>
        IF HasExtension(letter_name, "pdf")
        THEN /\ payload.type = "document"
             /\ payload.encoding = "base64"
             /\ payload.media_type = "application/pdf"
        ELSE /\ payload.type = "text"
             /\ payload.text = SelectSeq(letter_bytes, LAMBDA b : b \in 0..127)

C8_Witness ==
    /\ letter_name = <<"x", ".", "jpg">>
    /\ letter_bytes = <<255>>
    /\ payload.type = "text"
    /\ payload.text = <<>>

\* C9: a JSON object text inside markdown fences, tagged or bare and with
\* whitespace around them, gives the same outcome in both extractions as the
\* text alone.
C9_FencedSameAsPlain ==
    fence_out # <<>> =>
        /\ fence_out.letter_fenced = fence_out.letter
        /\ fence_out.audiogram_fenced = fence_out.audiogram

C9_Witness ==
    /\ fence_out # <<>>
    /\ fence.tag = "bare"
    /\ fence.inner = 1
    /\ ~fence_out.letter_fenced.raised
    /\ fence_out.letter_fenced.v["name"] = Str(<<"A">>)
    /\ fence_out.letter_fenced.v["dob"] = Str(<<"2", "4", "/", "0", "8", "/", "2", "0", "2", "5">>)

\* C10: one POST /api/extract calls the oracle for the letter and then, only when
\* the letter gave a record, for the audiogram, never twice for either; a
\* failure of either step, the audiogram's 400 included, ends the request with
\* one response, of status 500.
C10_CallOrderAndSingle500 ==
    route = "extract" =>
        /\ oracle_calls \in {<<>>, <<"letter">>, <<"letter", "audiogram">>}
        /\ "audiogram" \in Range(oracle_calls)
              => solicitor_data # NoOutcome /\ ~solicitor_data.raised
        /\ Len(responses) <= 1
        /\ pc = "done" => Len(responses) = 1
        /\ Served =>
              (responses[1].status = 500
                  <=> (solicitor_data.raised \/ audiogram_data.raised))
        /\ Served /\ responses[1].status # 500 => responses[1].status = 200

C10_Witness ==
    /\ Served
    /\ route = "extract"
    /\ oracle_calls = <<"letter">>
    /\ ~solicitor_data.raised
    /\ audiogram_data = Raise("HTTPException", 400)
    /\ responses[1].status = 500

====
